---- MODULE Spec2Model ----
(***************************************************************************)
(* Model of train_descriptor.py: the training / validation orchestrator of *)
(* the dense descriptor network (argument checks, setup, checkpoint load,  *)
(* epoch loop, NaN/Inf guard, running means, validation gate, checkpoint   *)
(* save), as a state machine over successive launches of the script.       *)
(*                                                                         *)
(* Abstractions.  Tensors are abstracted to integers: the loss of a batch  *)
(* is a record [kind, v], its gradient norm is v, the model parameters and *)
(* the SGD momentum buffer are integers moved by the clipped gradient.     *)
(* float64 running means are exact rationals <<num, den>> in lowest terms. *)
(***************************************************************************)
EXTENDS Integers, Sequences, FiniteSets, TLC

(* ------------------------------ bounds -------------------------------- *)
\* --num_epoch of every launch
NumEpoch == 1
\* len(train_loader) = len(val_loader): batches per pass
NumBatches == 2
\* --validation_interval ranges over 1..MaxValInterval
MaxValInterval == 2
\* launches of the script in one behaviour
MaxRuns == 2

(* ------------------------- program constants -------------------------- *)
SetupSeed == 10085
EpochSeedBase == 10086
ValidationSeed == 10086
ClipNorm == 10
\* --batch_size (its default)
BatchSize == 8

(* ------------------------------ inputs -------------------------------- *)
\* rr_loss.item() of a batch: a finite value, NaN or infinity
FiniteLossValues == {1, 12}
Losses ==
    {[kind |-> "finite", v |-> x] : x \in FiniteLossValues}
        \cup {[kind |-> "nan", v |-> 0], [kind |-> "inf", v |-> 0]}

\* samples in the last batch of a pass: a partial batch or a full one
LastLens == {1, BatchSize}

\* no file at --trained_model_path
NoFile == [epoch |-> -1, step |-> -1, model |-> -1, optimizer |-> -1,
           validation_loss |-> <<0, 1>>, name_epoch |-> -1, dir_run |-> 0,
           at_validation_step |-> -1]

Unbound == <<0, 0>>

(* --------------------------- pure helpers ----------------------------- *)
RECURSIVE GCD(_, _)
GCD(a, b) == IF b = 0 THEN a ELSE GCD(b, a % b)

Abs(x) == IF x < 0 THEN -x ELSE x

\* a rational in lowest terms with a positive denominator
Norm(n, d) ==
    LET g == GCD(Abs(n), Abs(d))
    IN  IF g = 0 THEN <<0, 1>> ELSE <<n \div g, d \div g>>

\* the guard without its isinf test
IsUnstableNanOnly(loss) == loss.kind = "nan"

\* math.isnan(x) or math.isinf(x)
IsUnstable(loss) == loss.kind = "nan" \/ loss.kind = "inf"

\* np.mean(x) of a scalar x (a rational)
FirstMean(x) == Norm(x[1], x[2])

\* (mean * batch + x) / (batch + 1.0), mean and x rationals
NextMean(mean, batch, x) ==
    Norm(mean[1] * batch * x[2] + x[1] * mean[2],
         mean[2] * x[2] * (batch + 1))

\* 0.5 * a + 0.5 * b
HalfSum(a, b) == Norm(a + b, 2)

\* torch.nn.utils.clip_grad_norm_(parameters, 10.0)
ClipGrad(g) == IF g > ClipNorm THEN ClipNorm ELSE g

\* number of samples of batch b of a loader whose last batch has `last` samples
BatchLen(b, last) == IF b = NumBatches - 1 THEN last ELSE BatchSize

(* ------------------------------ state --------------------------------- *)
VARIABLES
    run,                  \* launches of the script so far
    pc,                   \* position of the running script
    error,                \* the exception that ended the launch, or "none"
    args,                 \* parsed command line of this launch
    trained_file,         \* the file at --trained_model_path, or NoFile
    saved,                \* checkpoints this launch has written, in order
    fs,                   \* directories that exist on disk
    created,              \* what this launch has created or built so far
    epoch,                \* epoch (line 165 / 175)
    step,                 \* global step (line 164 / 176, 260)
    validation_step,      \* line 178, 336
    cur_epoch,            \* loop variable of line 183
    batch,                \* enumerate index of the running pass
    params,               \* feature_descriptor_model parameters
    grad,                 \* accumulated .grad of the parameters
    momentum_buf,         \* optimizer.state (SGD momentum buffer)
    last_batch_iteration, \* iteration last given to lr_scheduler.batch_step
    mean_rr_loss,         \* running mean of the loss, or Unbound
    mean_accuracy,        \* <<mean_accuracy_1, _2, _3>>, each or Unbound
    tq_n,                 \* samples counted by the current progress bar
    writer,               \* "none", "open" or "closed"
    late_write,           \* a scalar or image was added after writer.close()
    seed,                 \* seed last given to the random generators
    training,             \* module mode: TRUE after train(), FALSE after eval()
    \* history of this launch, read by the properties only
    rr_loss,              \* loss of the last iteration of the running pass
    iter_ops,             \* operations of that iteration
    iters,                \* training iterations started in this launch
    opt_steps,            \* optimizer.step() calls in this launch
    loss_sum,             \* sum of the non-skipped losses of this epoch
    loss_cnt,             \* number of non-skipped iterations of this epoch
    log,                  \* passes and checkpoint writes of this launch
    \* the restore of lines 163-169 on arbitrary state dictionaries
    restore               \* [pc, model_state, pre_trained, error]

vars == <<run, pc, error, args, trained_file, saved, fs, created, epoch, step,
          validation_step, cur_epoch, batch, params, grad, momentum_buf,
          last_batch_iteration, mean_rr_loss, mean_accuracy, tq_n, writer,
          late_write, seed, training, rr_loss, iter_ops, iters, opt_steps,
          loss_sum, loss_cnt, log, restore>>

NoLoss == [kind |-> "none", v |-> 0]

Range(s) == {s[i] : i \in 1..Len(s)}

\* command lines of a launch; "file" names an existing checkpoint file
ArgSets(haveFile) ==
    {a \in [load_trained_model : BOOLEAN,
            trained_model_path : {"none", "missing", "file"},
            data_root_exists : BOOLEAN,
            validation_interval : 1..MaxValInterval,
            last_len : LastLens] :
        /\ (a.trained_model_path = "file") => haveFile
        /\ (~a.load_trained_model) => a.trained_model_path = "none"}

\* state of a freshly started interpreter (nothing bound yet)
ProcessStart ==
    /\ pc = "args"
    /\ error = "none"
    /\ saved = <<>>
    /\ created = {}
    /\ epoch = 0 /\ step = 0 /\ validation_step = 0
    /\ cur_epoch = 0 /\ batch = 0
    /\ params = 0 /\ grad = 0 /\ momentum_buf = 0
    /\ last_batch_iteration = -1
    /\ mean_rr_loss = Unbound
    /\ mean_accuracy = <<Unbound, Unbound, Unbound>>
    /\ tq_n = 0
    /\ writer = "none" /\ late_write = FALSE
    /\ seed = 0
    /\ training = TRUE
    /\ rr_loss = NoLoss /\ iter_ops = <<>> /\ iters = 0 /\ opt_steps = 0
    /\ loss_sum = 0 /\ loss_cnt = 0
    /\ log = <<>>

\* the key-level restore is not under study in the launches of Spec
NoRestore == [pc |-> "idle", model_state |-> <<>>, pre_trained |-> <<>>,
              initial |-> <<>>, error |-> "none"]

Init ==
    /\ run = 1
    /\ args \in ArgSets(FALSE)
    /\ trained_file = NoFile
    /\ fs = {}
    /\ ProcessStart
    /\ restore = NoRestore

(* ------------------------- start-up (77-178) -------------------------- *)
\* lines 77-90: resume requested without a path, or data root missing
CheckArguments ==
    /\ pc = "args"
    /\ IF args.load_trained_model /\ args.trained_model_path = "none"
       THEN pc' = "aborted" /\ error' = "IOError: no trained_model_path"
       ELSE IF ~args.data_root_exists
       THEN pc' = "aborted" /\ error' = "IOError: data root"
       ELSE pc' = "setup" /\ error' = error
    /\ UNCHANGED <<restore,
                   run, args, trained_file, saved, fs, created, epoch, step,
                   validation_step, cur_epoch, batch, params, grad,
                   momentum_buf, last_batch_iteration, mean_rr_loss,
                   mean_accuracy, tq_n, writer, late_write, seed, training,
                   rr_loss, iter_ops, iters, opt_steps, loss_sum, loss_cnt,
                   log>>

\* what lines 99-133 create: log_root.mkdir() only when it is missing, the
\* writer's run directory, the precompute directory when missing, the dataset
SetupArtifacts(disk) ==
    (IF "log_root" \in disk THEN {} ELSE {"log_root"})
        \cup {"writer_logdir"}
        \cup (IF "precompute_root" \in disk THEN {} ELSE {"precompute_root"})
        \cup {"train_dataset"}

\* lines 92-157: seeds, log directory, writer, precompute directory, dataset,
\* loaders, model (Kaiming initialisation), optimizer, scheduler
Setup ==
    /\ pc = "setup"
    /\ seed' = SetupSeed
    /\ created' = SetupArtifacts(fs)
    /\ fs' = fs \cup {"log_root", "precompute_root"}
    /\ writer' = "open"
    /\ params' = 0
    /\ grad' = 0
    /\ momentum_buf' = 0
    /\ last_batch_iteration' = -1
    /\ pc' = "load"
    /\ UNCHANGED <<restore,
                   run, error, args, trained_file, saved, epoch, step,
                   validation_step, cur_epoch, batch, mean_rr_loss,
                   mean_accuracy, tq_n, late_write, training, rr_loss,
                   iter_ops, iters, opt_steps, loss_sum, loss_cnt, log>>

\* the loader forgetting the saved step
RestoredStateStepZero(file) ==
    [step |-> 0, epoch |-> file.epoch, params |-> file.model]

\* lines 163-169: step, epoch and the model parameters read from the file
\* (every key of this model is a key of a checkpoint of this model)
RestoredState(file) ==
    [step |-> file.step, epoch |-> file.epoch, params |-> file.model]

\* the existence test left out
TrainedModelAssumed(a) == TRUE

\* line 161: trained_model_path.exists()
TrainedModelExists(a) == a.trained_model_path = "file"

\* lines 159-178
LoadTrainedModel ==
    /\ pc = "load"
    /\ IF args.load_trained_model
       THEN IF TrainedModelExists(args)
            THEN /\ step' = RestoredState(trained_file).step
                 /\ epoch' = RestoredState(trained_file).epoch
                 /\ params' = RestoredState(trained_file).params
                 /\ cur_epoch' = RestoredState(trained_file).epoch
                 /\ pc' = "epoch"
                 /\ error' = error
            ELSE /\ pc' = "aborted"
                 /\ error' = "OSError: no trained model"
                 /\ UNCHANGED <<step, epoch, params, cur_epoch>>
       ELSE /\ epoch' = 0
            /\ step' = 0
            /\ cur_epoch' = 0
            /\ pc' = "epoch"
            /\ UNCHANGED <<params, error>>
    /\ validation_step' = IF pc' = "epoch" THEN 0 ELSE validation_step
    /\ UNCHANGED <<restore,
                   run, args, trained_file, saved, fs, created, batch, grad,
                   momentum_buf, last_batch_iteration, mean_rr_loss,
                   mean_accuracy, tq_n, writer, late_write, seed, training,
                   rr_loss, iter_ops, iters, opt_steps, loss_sum, loss_cnt,
                   log>>

(* ----------------------- training pass (183-269) ---------------------- *)
\* line 183: range(epoch, args.num_epoch + 1)
InEpochRange(e) == e < NumEpoch + 1

\* every epoch seeded alike
EpochSeedFixed(e) == EpochSeedBase

\* lines 185-187: the seed of training epoch e
EpochSeed(e) == EpochSeedBase + e

\* the mode left as the previous pass set it
ModeKept(mode) == mode

\* line 189: feature_descriptor_model.train()
TrainMode(mode) == TRUE

\* lines 183-191
EpochStart ==
    /\ pc = "epoch"
    /\ InEpochRange(cur_epoch)
    /\ seed' = EpochSeed(cur_epoch)
    /\ training' = TrainMode(training)
    /\ tq_n' = 0
    /\ batch' = 0
    /\ loss_sum' = 0
    /\ loss_cnt' = 0
    /\ pc' = "train"
    /\ UNCHANGED <<restore,
                   run, error, args, trained_file, saved, fs, created, epoch,
                   step, validation_step, cur_epoch, params, grad,
                   momentum_buf, last_batch_iteration, mean_rr_loss,
                   mean_accuracy, writer, late_write, rr_loss, iter_ops,
                   iters, opt_steps, log>>

\* line 183: the range is exhausted, the script ends
Finish ==
    /\ pc = "epoch"
    /\ ~InEpochRange(cur_epoch)
    /\ pc' = "completed"
    /\ UNCHANGED <<restore,
                   run, error, args, trained_file, saved, fs, created, epoch,
                   step, validation_step, cur_epoch, batch, params, grad,
                   momentum_buf, last_batch_iteration, mean_rr_loss,
                   mean_accuracy, tq_n, writer, late_write, seed, training,
                   rr_loss, iter_ops, iters, opt_steps, loss_sum, loss_cnt,
                   log>>

\* optimizer.step() of SGD with momentum on the clipped gradient g
SGDStep(p, buf, g) == [params |-> p + g, buf |-> buf + g]

\* the gradients left as the previous backward pass accumulated them
ZeroGradOmitted(g) == g

\* optimizer.zero_grad()
ZeroGrad(g) == 0

\* rr_loss.backward(): the gradient of the loss is added to .grad
Backward(g, loss) == g + loss.v

\* lines 233-237: the NaN / Inf branch
SkipBranch(loss) ==
    /\ grad' = ZeroGrad(Backward(ZeroGrad(grad), loss))
    /\ tq_n' = tq_n + BatchSize
    /\ batch' = batch + 1
    /\ iter_ops' = <<"batch_step", "forward", "zero_grad", "backward",
                     "zero_grad">>
    /\ UNCHANGED <<pc, error, params, momentum_buf, opt_steps, mean_rr_loss,
                   step, late_write, loss_sum, loss_cnt>>

\* lines 244-247: the running mean; Unbound when line 247 reads a name that
\* no earlier iteration has bound (NameError)
UpdatedMean(mean, b, x) ==
    IF b = 0 THEN FirstMean(<<x, 1>>)
    ELSE IF mean = Unbound THEN Unbound
    ELSE NextMean(mean, b, <<x, 1>>)

\* lines 239-264: the finite branch
StepBranch(loss) ==
    LET g == ClipGrad(Backward(ZeroGrad(grad), loss))
        upd == SGDStep(params, momentum_buf, g)
        m == UpdatedMean(mean_rr_loss, batch, loss.v)
    IN  /\ grad' = g
        /\ params' = upd.params
        /\ momentum_buf' = upd.buf
        /\ opt_steps' = opt_steps + 1
        /\ iter_ops' = <<"batch_step", "forward", "zero_grad", "backward",
                         "clip", "step">>
        /\ IF m = Unbound
           THEN /\ pc' = "crashed"
                /\ error' = "NameError: mean_rr_loss"
                /\ UNCHANGED <<mean_rr_loss, step, tq_n, batch, late_write,
                               loss_sum, loss_cnt>>
           ELSE /\ mean_rr_loss' = m
                /\ step' = step + 1
                /\ tq_n' = tq_n + BatchLen(batch, args.last_len)
                /\ late_write' = (late_write \/ writer = "closed")
                /\ batch' = batch + 1
                /\ loss_sum' = loss_sum + loss.v
                /\ loss_cnt' = loss_cnt + 1
                /\ UNCHANGED <<pc, error>>

\* the scheduler counting its own calls
SchedulerOwnCount(st, calls) == calls

\* line 205: batch_step(batch_iteration=step); `calls` is the number of
\* earlier calls in this launch
SchedulerIteration(st, calls) == st

\* lines 192-264: one iteration of the training loop
TrainIteration ==
    /\ pc = "train"
    /\ batch < NumBatches
    /\ \E loss \in Losses :
        /\ rr_loss' = loss
        /\ last_batch_iteration' = SchedulerIteration(step, iters)
        /\ iters' = iters + 1
        /\ IF IsUnstable(loss) THEN SkipBranch(loss) ELSE StepBranch(loss)
    /\ UNCHANGED <<restore,
                   run, args, trained_file, saved, fs, created, epoch,
                   validation_step, cur_epoch, mean_accuracy, writer, seed,
                   training, log>>

\* the gate taken on the count of finished epochs instead of the epoch index
ValidationDueAfter(e, interval) == (e + 1) % interval = 0

\* line 268
ValidationDue(e, interval) == e % interval = 0

Event(kind, e) == [ev |-> kind, e |-> e]

\* lines 266-269: the epoch does not validate
SkipValidation ==
    /\ pc = "train"
    /\ batch = NumBatches
    /\ ~ValidationDue(cur_epoch, args.validation_interval)
    /\ log' = Append(log, Event("train_done", cur_epoch))
    /\ cur_epoch' = cur_epoch + 1
    /\ pc' = "epoch"
    /\ rr_loss' = NoLoss
    /\ iter_ops' = <<>>
    /\ UNCHANGED <<restore,
                   run, error, args, trained_file, saved, fs, created, epoch,
                   step, validation_step, batch, params, grad, momentum_buf,
                   last_batch_iteration, mean_rr_loss, mean_accuracy, tq_n,
                   writer, late_write, seed, training, iters, opt_steps,
                   loss_sum, loss_cnt>>

(* --------------------- validation pass (271-353) ---------------------- *)
\* lines 266-277: the epoch validates
StartValidation ==
    /\ pc = "train"
    /\ batch = NumBatches
    /\ ValidationDue(cur_epoch, args.validation_interval)
    /\ log' = Append(log, Event("train_done", cur_epoch))
    /\ training' = FALSE
    /\ tq_n' = 0
    /\ seed' = ValidationSeed
    /\ batch' = 0
    /\ pc' = "val"
    /\ rr_loss' = NoLoss
    /\ iter_ops' = <<>>
    /\ UNCHANGED <<restore,
                   run, error, args, trained_file, saved, fs, created, epoch,
                   step, validation_step, cur_epoch, params, grad,
                   momentum_buf, last_batch_iteration, mean_rr_loss,
                   mean_accuracy, writer, late_write, iters, opt_steps,
                   loss_sum, loss_cnt>>

\* lines 319-322: (ratio_1, ..., ratio_6) of validation batch b, in percent.
\* The validation loader is not shuffled, the generators are reseeded with a
\* fixed seed and the model is in eval mode, so the ratios are a function of
\* the parameters and the batch; this one varies with both and with the tier.
MatchingRatios(p, b) == [i \in 1..6 |-> ((p + 2 * b + 3 * i) % 5) * 25]

\* the tiers paired crosswise
AccuraciesMixed(r) ==
    <<HalfSum(r[1], r[5]), HalfSum(r[2], r[4]), HalfSum(r[3], r[6])>>

\* lines 323-325
Accuracies(r) == <<HalfSum(r[1], r[4]), HalfSum(r[2], r[5]), HalfSum(r[3], r[6])>>

\* lines 327-334
UpdatedAccuracy(means, b, acc) ==
    IF b = 0
    THEN <<FirstMean(acc[1]), FirstMean(acc[2]), FirstMean(acc[3])>>
    ELSE <<NextMean(means[1], b, acc[1]), NextMean(means[2], b, acc[2]),
           NextMean(means[3], b, acc[3])>>

\* the validation loop advancing the global step
ValidationAdvancesStep(st, vst) == [step |-> st + 1, validation_step |-> vst]

\* line 336: validation_step += 1 (the global step is not touched)
ValidationCounters(st, vst) == [step |-> st, validation_step |-> vst + 1]

\* lines 279-344: one iteration of the validation loop
ValIteration ==
    /\ pc = "val"
    /\ batch < NumBatches
    /\ mean_accuracy' = UpdatedAccuracy(mean_accuracy, batch,
                                        Accuracies(MatchingRatios(params, batch)))
    /\ validation_step' = ValidationCounters(step, validation_step).validation_step
    /\ step' = ValidationCounters(step, validation_step).step
    /\ tq_n' = tq_n + BatchLen(batch, args.last_len)
    /\ late_write' = (late_write \/ writer = "closed")
    /\ log' = Append(log, Event("val_batch", cur_epoch))
    /\ batch' = batch + 1
    /\ UNCHANGED <<restore,
                   run, pc, error, args, trained_file, saved, fs, created,
                   epoch, cur_epoch, params, grad, momentum_buf,
                   last_batch_iteration, mean_rr_loss, writer, seed, training,
                   rr_loss, iter_ops, iters, opt_steps, loss_sum, loss_cnt>>

\* the checkpoint recording the epoch just finished instead of the next one
CheckpointContentSameEpoch(e, st, p, opt, means) ==
    [epoch |-> e, step |-> st, model |-> p, optimizer |-> opt,
     validation_loss |-> means[1]]

\* lines 349-351: what the script hands to utils.save_model
CheckpointContent(e, st, p, opt, means) ==
    [epoch |-> e + 1, step |-> st, model |-> p, optimizer |-> opt,
     validation_loss |-> means[1]]

\* lines 346-348: the file, named after the epoch inside this launch's log
\* directory; at_validation_step is history (the validation step when the
\* file was written), not a part of the file
CheckpointFile(c, e, r, vstep) ==
    [epoch |-> c.epoch, step |-> c.step, model |-> c.model,
     optimizer |-> c.optimizer, validation_loss |-> c.validation_loss,
     name_epoch |-> e, dir_run |-> r, at_validation_step |-> vstep]

\* utils.save_model: the record is written to the path as given
save_model(files, file) == Append(files, file)

\* lines 345-353: end of the validation pass
SaveCheckpoint ==
    /\ pc = "val"
    /\ batch = NumBatches
    /\ saved' = save_model(saved,
                    CheckpointFile(
                        CheckpointContent(cur_epoch, step, params,
                                          momentum_buf, mean_accuracy),
                        cur_epoch, run, validation_step))
    /\ log' = Append(log, Event("checkpoint", cur_epoch))
    /\ writer' = "closed"
    /\ cur_epoch' = cur_epoch + 1
    /\ pc' = "epoch"
    /\ UNCHANGED <<restore,
                   run, error, args, trained_file, fs, created, epoch, step,
                   validation_step, batch, params, grad, momentum_buf,
                   last_batch_iteration, mean_rr_loss, mean_accuracy, tq_n,
                   late_write, seed, training, rr_loss, iter_ops, iters,
                   opt_steps, loss_sum, loss_cnt>>

(* ------------------------------ launches ------------------------------ *)
Ended == pc \in {"completed", "aborted", "crashed"}

\* checkpoint files a later launch can be pointed at
Files == Range(saved) \cup (IF trained_file = NoFile THEN {} ELSE {trained_file})

\* the script is launched again, with a new command line; directories and the
\* named checkpoint file persist, the interpreter state does not
Relaunch ==
    /\ Ended
    /\ run < MaxRuns
    /\ run' = run + 1
    /\ \E a \in ArgSets(Files # {}) :
        /\ args' = a
        /\ IF a.trained_model_path = "file"
           THEN trained_file' \in Files
           ELSE trained_file' = NoFile
    /\ pc' = "args"
    /\ error' = "none"
    /\ saved' = <<>>
    /\ created' = {}
    /\ epoch' = 0 /\ step' = 0 /\ validation_step' = 0
    /\ cur_epoch' = 0 /\ batch' = 0
    /\ params' = 0 /\ grad' = 0 /\ momentum_buf' = 0
    /\ last_batch_iteration' = -1
    /\ mean_rr_loss' = Unbound
    /\ mean_accuracy' = <<Unbound, Unbound, Unbound>>
    /\ tq_n' = 0
    /\ writer' = "none" /\ late_write' = FALSE
    /\ seed' = 0
    /\ training' = TRUE
    /\ rr_loss' = NoLoss /\ iter_ops' = <<>> /\ iters' = 0 /\ opt_steps' = 0
    /\ loss_sum' = 0 /\ loss_cnt' = 0
    /\ log' = <<>>
    /\ UNCHANGED <<fs, restore>>

Next ==
    \/ CheckArguments
    \/ Setup
    \/ LoadTrainedModel
    \/ EpochStart
    \/ TrainIteration
    \/ SkipValidation
    \/ StartValidation
    \/ ValIteration
    \/ SaveCheckpoint
    \/ Finish
    \/ Relaunch

Spec == Init /\ [][Next]_vars

(* -------------- the restore on arbitrary state dictionaries ----------- *)
\* names of parameters a model or a checkpoint may hold
KeyUniverse == {"conv.weight", "norm.weight", "head.weight"}

\* state dictionaries over any subset of the names
StateDicts(values) == UNION {[K -> values] : K \in SUBSET KeyUniverse}

\* the comprehension without its `if k in model_state`
KeepAllKeys(ckpt, model) == ckpt

\* line 167: {k: v for k, v in pre_trained_state["model"].items()
\*            if k in model_state}
KeepKnownKeys(ckpt, model) ==
    [k \in (DOMAIN ckpt) \cap (DOMAIN model) |-> ckpt[k]]

\* line 168: dict.update
DictUpdate(d, u) ==
    [k \in (DOMAIN d) \cup (DOMAIN u) |-> IF k \in DOMAIN u THEN u[k] ELSE d[k]]

\* line 169: load_state_dict (strict) of dictionary d into a module whose
\* state dictionary is `model`
LoadStateDictError(model, d) ==
    IF (DOMAIN model) \ (DOMAIN d) # {} THEN "missing keys"
    ELSE IF (DOMAIN d) \ (DOMAIN model) # {} THEN "unexpected keys"
    ELSE "none"

\* lines 166-169
RestoreModel ==
    /\ restore.pc = "loaded"
    /\ LET model_state == restore.model_state
           trained_model_state == KeepKnownKeys(restore.pre_trained, model_state)
           updated == DictUpdate(model_state, trained_model_state)
           err == LoadStateDictError(model_state, updated)
       IN  restore' = [restore EXCEPT
                          !.pc = IF err = "none" THEN "restored" ELSE "failed",
                          !.model_state = IF err = "none" THEN updated ELSE @,
                          !.error = err]
    /\ UNCHANGED <<run, pc, error, args, trained_file, saved, fs, created,
                   epoch, step, validation_step, cur_epoch, batch, params,
                   grad, momentum_buf, last_batch_iteration, mean_rr_loss,
                   mean_accuracy, tq_n, writer, late_write, seed, training,
                   rr_loss, iter_ops, iters, opt_steps, loss_sum, loss_cnt,
                   log>>

\* line 163 has read a checkpoint whose "model" holds any names, into a
\* freshly initialised model that holds any names
RestoreInit ==
    /\ run = 1
    /\ args = [load_trained_model |-> TRUE, trained_model_path |-> "file",
               data_root_exists |-> TRUE, validation_interval |-> 1,
               last_len |-> BatchSize]
    /\ trained_file = NoFile
    /\ fs = {}
    /\ ProcessStart
    /\ \E m \in StateDicts({0}), c \in StateDicts({1, 2}) :
          restore = [pc |-> "loaded", model_state |-> m, pre_trained |-> c,
                     initial |-> m, error |-> "none"]

RestoreNext == RestoreModel

SpecRestore == RestoreInit /\ [][RestoreNext]_vars

(* ============================ properties ============================== *)
Unstable == {"nan", "inf"}
InLoop == pc \in {"epoch", "train", "val", "completed", "crashed"}
Resumed == args.load_trained_model /\ args.trained_model_path = "file"

C2_UnstableBatchNeverFatal == pc # "crashed"

(* C3: the validation pass of epoch e runs iff e mod validation_interval   *)
(* = 0, exactly once and after the training pass of e; every other epoch   *)
(* is followed directly by the next training epoch.                        *)
RECURSIVE ExpectedPasses(_, _, _)
ExpectedPasses(from, to, interval) ==
    IF from >= to THEN <<>>
    ELSE <<Event("train_done", from)>>
           \o (IF from % interval = 0
               THEN [i \in 1..NumBatches |-> Event("val_batch", from)]
               ELSE <<>>)
           \o ExpectedPasses(from + 1, to, interval)

PassLog == SelectSeq(log, LAMBDA x : x.ev # "checkpoint")

C3_ValidationOnlyOnIntervalEpochs ==
    /\ pc \in {"epoch", "train", "completed", "crashed"}
         => PassLog = ExpectedPasses(epoch, cur_epoch, args.validation_interval)
    /\ pc = "val"
         => /\ cur_epoch % args.validation_interval = 0
            /\ PassLog =
                 ExpectedPasses(epoch, cur_epoch, args.validation_interval)
                   \o <<Event("train_done", cur_epoch)>>
                   \o [i \in 1..batch |-> Event("val_batch", cur_epoch)]

\* a finished launch in which epoch 0 validated and epoch 1 did not
C3_Witness ==
    /\ pc = "completed"
    /\ args.validation_interval = 2
    /\ \E i \in 1..Len(log) : log[i] = Event("val_batch", 0)
    /\ log[Len(log)] = Event("train_done", 1)

(* C4: one checkpoint per validating epoch e, written after the last       *)
(* validation batch, recording epoch e + 1, the global step, the model and *)
(* optimizer state and the running mean of accuracy_1 of that pass; none   *)
(* during a training pass or on a non-validating epoch.                    *)
ValidatedEpochs ==
    {e \in epoch..(cur_epoch - 1) : e % args.validation_interval = 0}

C4_OneCheckpointPerValidatingEpoch ==
    InLoop =>
      /\ Len(saved) = Cardinality(ValidatedEpochs)
      /\ \A i \in 1..Len(saved) :
            /\ saved[i].name_epoch \in ValidatedEpochs
            /\ saved[i].epoch = saved[i].name_epoch + 1
            /\ \A j \in 1..Len(saved) :
                  i < j => saved[i].name_epoch < saved[j].name_epoch
      /\ (pc = "epoch" /\ Len(log) > 0
            /\ log[Len(log)].ev = "checkpoint")
           => /\ saved[Len(saved)].name_epoch = cur_epoch - 1
              /\ saved[Len(saved)].step = step
              /\ saved[Len(saved)].model = params
              /\ saved[Len(saved)].optimizer = momentum_buf
              /\ saved[Len(saved)].validation_loss = mean_accuracy[1]
              /\ log[Len(log) - 1] = Event("val_batch", cur_epoch - 1)

\* the second checkpoint of a launch has just been written, after updates
C4_Witness ==
    /\ pc = "epoch"
    /\ Len(saved) = 2
    /\ log[Len(log)].ev = "checkpoint"
    /\ saved[2].step > saved[1].step
    /\ saved[2].model # 0

(* C5: a launch resumed from the checkpoint written at the end of epoch e  *)
(* starts its first training epoch at e + 1 with the step and parameters   *)
(* the file recorded, and gives that step to its first iteration.          *)
C5_ResumeContinuesAtNextEpoch ==
    (Resumed /\ InLoop) =>
      /\ epoch = trained_file.name_epoch + 1
      /\ (log = <<>> /\ pc \in {"epoch", "train"}) => cur_epoch = epoch
      /\ iters = 0 => (step = trained_file.step /\ params = trained_file.model)
      /\ iters = 1 => last_batch_iteration = trained_file.step

\* the first iteration of a resumed launch has run from a nonzero step
C5_Witness ==
    /\ Resumed
    /\ pc = "train"
    /\ iters = 1
    /\ trained_file.step > 0
    /\ trained_file.model # 0
    /\ cur_epoch = trained_file.name_epoch + 1

(* C6: a launch with a configuration error (no data root; resume without a *)
(* path; resume with a path that does not exist) never reaches the epoch   *)
(* loop: no training iteration, optimizer step or checkpoint write.        *)
ConfigError ==
    \/ ~args.data_root_exists
    \/ args.load_trained_model /\ args.trained_model_path = "none"
    \/ args.load_trained_model /\ args.trained_model_path = "missing"

C7_NoPartialStateOnConfigError == pc = "aborted" => created = {}

(* C8: after every non-skipped training iteration mean_rr_loss is the      *)
(* arithmetic mean of the non-skipped losses of the current epoch.         *)
C8_MeanOfNonSkippedLosses ==
    (pc = "train" /\ rr_loss.kind = "finite")
        => mean_rr_loss = Norm(loss_sum, loss_cnt)

(* C9: an iteration with a NaN or infinite loss advances the progress      *)
(* counter and the running mean's counter exactly as a finite one does: by *)
(* the number of samples of the batch, and by one.                         *)
C9_SkippedIterationAdvancesCounters ==
    [][(iters' = iters + 1 /\ rr_loss'.kind \in Unstable)
          => (tq_n' = tq_n + BatchLen(batch, args.last_len)
              /\ batch' = batch + 1)]_vars

(* C10: after a resume every component of the training state (epoch,       *)
(* global step, validation step, optimizer state, model parameters) equals *)
(* its value when the checkpoint was written.                              *)
C10_ResumeRestoresTrainingState ==
    (Resumed /\ pc = "epoch" /\ log = <<>>) =>
      /\ epoch = trained_file.epoch
      /\ step = trained_file.step
      /\ params = trained_file.model
      /\ momentum_buf = trained_file.optimizer
      /\ validation_step = trained_file.at_validation_step

(* C11: the restore is by name: it never fails on unknown or missing names, *)
(* keeps the model's set of names, gives every name the checkpoint holds   *)
(* the checkpoint's value, leaves every other name at its initial value    *)
(* and ignores names the model does not have.                              *)
C11_RestoreByMatchingNames ==
    restore.pc \in {"restored", "failed"} =>
      /\ restore.error = "none"
      /\ DOMAIN restore.model_state = DOMAIN restore.initial
      /\ \A k \in DOMAIN restore.initial :
            restore.model_state[k] =
                IF k \in DOMAIN restore.pre_trained
                THEN restore.pre_trained[k]
                ELSE restore.initial[k]

\* restored from a checkpoint with a name the model lacks, into a model with
\* a name the checkpoint lacks and a name they share
C11_Witness ==
    /\ restore.pc = "restored"
    /\ (DOMAIN restore.pre_trained) \ (DOMAIN restore.initial) # {}
    /\ (DOMAIN restore.initial) \ (DOMAIN restore.pre_trained) # {}
    /\ (DOMAIN restore.initial) \cap (DOMAIN restore.pre_trained) # {}

(* C12: a launch that starts fresh and completes has executed exactly      *)
(* num_epoch training epochs.                                              *)
TrainedEpochs == Cardinality({i \in 1..Len(log) : log[i].ev = "train_done"})

C12_FreshRunTrainsNumEpochEpochs ==
    (pc = "completed" /\ ~args.load_trained_model)
        => TrainedEpochs = NumEpoch

(* C13: during a training pass the seed in effect is 10086 plus the epoch  *)
(* index and nothing else, also in a resumed launch; during a validation   *)
(* pass it is the one validation seed, whatever epoch it follows.          *)
C13_SeedsDependOnEpochOnly ==
    /\ pc = "train" => seed = EpochSeedBase + cur_epoch
    /\ pc = "val" => seed = ValidationSeed

\* a validation pass of a resumed launch, after a training pass whose seed
\* was another one
C13_Witness ==
    /\ Resumed
    /\ pc = "val"
    /\ batch > 0
    /\ cur_epoch > 0
    /\ seed # EpochSeedBase + cur_epoch

C15_SchedulerFollowsGlobalStep ==
    /\ (pc \in {"train", "crashed"} /\ rr_loss.kind # "none")
         => last_batch_iteration =
              (IF rr_loss.kind = "finite" /\ pc = "train"
               THEN step - 1 ELSE step)
    /\ (Resumed /\ iters = 1) => last_batch_iteration = trained_file.step

\* the first iteration of a launch resumed from a checkpoint with step > 0
C15_Witness ==
    /\ Resumed
    /\ iters = 1
    /\ pc = "train"
    /\ trained_file.step > 0
    /\ last_batch_iteration = trained_file.step

(* C16: entering, running and leaving a validation pass applies no         *)
(* gradient step: parameters, gradients, momentum state, global step and   *)
(* the training loss mean stay as they are, and each validation batch      *)
(* advances the validation step by one.                                    *)
C16_ValidationChangesNoTrainingState ==
    [][(pc = "val" \/ pc' = "val")
          => /\ params' = params
             /\ momentum_buf' = momentum_buf
             /\ grad' = grad
             /\ step' = step
             /\ opt_steps' = opt_steps
             /\ mean_rr_loss' = mean_rr_loss
             /\ (batch' = batch + 1 => validation_step' = validation_step + 1)
      ]_vars

\* the end of a validation pass that followed applied optimizer steps
C16_Witness ==
    /\ pc = "val"
    /\ batch = NumBatches
    /\ validation_step >= NumBatches
    /\ opt_steps > 0
    /\ step > 0
    /\ params # 0

(* C17: after validation batch k, mean_accuracy_i is the arithmetic mean   *)
(* over batches 0..k of this pass of the equal-weight average of tier i of *)
(* the two directions (ratio_i and ratio_{i+3}).                           *)
RECURSIVE TierSum(_, _, _)
TierSum(i, p, k) ==
    IF k = 0 THEN 0
    ELSE TierSum(i, p, k - 1)
           + MatchingRatios(p, k - 1)[i] + MatchingRatios(p, k - 1)[i + 3]

C17_ValidationMeansPerTier ==
    (pc = "val" /\ batch > 0) =>
        \A i \in 1..3 :
            /\ mean_accuracy[i][2] > 0
            /\ mean_accuracy[i][1] * 2 * batch
                 = TierSum(i, params, batch) * mean_accuracy[i][2]

\* the end of the second validation pass of a launch, the tiers apart
C17_Witness ==
    /\ pc = "val"
    /\ batch = NumBatches
    /\ cur_epoch > 0
    /\ \E j \in 1..Len(log) : log[j] = Event("val_batch", 0)
    /\ mean_accuracy[1] # mean_accuracy[2]
    /\ mean_accuracy[2] # mean_accuracy[3]

(* C18: in every state of the epoch loop the global step is its initial    *)
(* value (0, or the restored step) plus the number of optimizer steps      *)
(* applied so far in this launch.                                          *)
InitialStep == IF Resumed THEN trained_file.step ELSE 0

C18_StepCountsOptimizerSteps ==
    InLoop => step = InitialStep + opt_steps

(* C19: the model is in training mode in every state of a training pass,   *)
(* also after a validation pass, and in evaluation mode in every state of  *)
(* a validation pass.                                                      *)
C19_ModeMatchesPass ==
    /\ pc = "train" => training
    /\ pc = "val" => ~training

\* a training iteration done in the epoch after a validated one
C19_Witness ==
    /\ pc = "train"
    /\ batch > 0
    /\ cur_epoch > 0
    /\ log # <<>> /\ log[Len(log)] = Event("checkpoint", cur_epoch - 1)
    /\ training

(* C20: nothing is written to the metrics writer after writer.close(), and *)
(* the writer has been closed when the launch completes.                   *)
C20_WriterClosedOnlyAtCompletion ==
    /\ ~late_write
    /\ pc = "completed" => writer = "closed"

====
